---- MODULE Spec2Model ----
(***************************************************************************)
(* Model of the fstest fixture package (package fs): temporary File / Dir  *)
(* fixtures, the path operations applied to them, and the manifest built   *)
(* from a directory and compared with an expected manifest.                *)
(*                                                                         *)
(* A path string is a sequence of components; "" is the empty sequence and *)
(* filepath.Join is concatenation.  An absolute path starts with the       *)
(* component "/tmp"; a path that does not is relative to the working       *)
(* directory of the test process.                                          *)
(***************************************************************************)
EXTENDS Integers, Sequences, FiniteSets, TLC

\* ------------------------------------------------------------------ bounds
MaxHandles == 1      \* fixtures one test scope constructs
MaxOps == 2          \* path operations handed to one constructor
MaxRemoves == 2      \* explicit Remove() calls on one handle

\* ------------------------------------------------------- program constants
\* permission bits, written in decimal (0644, 0600, 0755, 0705, 0700, 0777)
defaultFileMode == 420
jFileMode == 384
subDirPerm == 493
customDirPerm == 453
tempDirPerm == 448
tempFilePerm == 384
allPerm == 511
\* os.FileMode: the type bits (os.ModeDir is bit 31, os.ModeSymlink bit 27,
\* "" for a regular file) kept apart from the nine permission bits
FileMode(type, perm) == [type |-> type, perm |-> perm]
ModeDir == "ModeDir"
ModeSymlink == "ModeSymlink"
defaultRootDirMode == FileMode(ModeDir, tempDirPerm)
defaultSymlinkMode == FileMode(ModeSymlink, allPerm)
userUid == 1001
userGid == 1002

\* os.TempDir(), and a directory that exists before the test starts
TempDir == <<"/tmp">>
ExtDir == <<"/tmp", "ext">>
TempNames == <<"t1", "t2", "t3", "t4">>

\* ---------------------------------------------------------------- variables
VARIABLES
  fs,         \* the filesystem: path -> entry
  handles,    \* the File / Dir values the constructors returned, in order
  cleanups,   \* t.Cleanup registrations: indexes into handles
  failed,     \* t.Errorf was called (assert.Nil found an error)
  pc,         \* "running", "done" (scope ended), "panicked"
  noCleanup,  \* the environment variable TEST_NOCLEANUP is set to true
  euid,       \* os.Geteuid() of the test process
  nextTemp,   \* how many temporary names os.CreateTemp/MkdirTemp handed out
  step,       \* where the manifest test stands ("none": no manifest test)
  actual,     \* the Manifest ManifestFromDir returned
  expected,   \* the Manifest Expected returned
  equal,      \* what comparing actual with expected reported
  streams     \* content streams: path -> how often opened and closed

fvars == <<fs, handles, cleanups, failed, pc, noCleanup, euid, nextTemp>>
mvars == <<step, actual, expected, equal, streams>>
vars == <<fs, handles, cleanups, failed, pc, noCleanup, euid, nextTemp,
          step, actual, expected, equal, streams>>

\* --------------------------------------------------------------- filesystem
Entry(type, mode, uid, gid, content, target) ==
  [type |-> type, mode |-> mode, uid |-> uid, gid |-> gid,
   content |-> content, target |-> target]

FileEntry(mode, content) == Entry("file", mode, 0, 0, content, <<>>)
DirEntry(mode) == Entry("dir", mode, 0, 0, "", <<>>)
SymlinkEntry(target) == Entry("symlink", allPerm, 0, 0, "", target)

Parent(p) == SubSeq(p, 1, Len(p) - 1)

IsPrefix(p, q) == Len(p) <= Len(q) /\ SubSeq(q, 1, Len(p)) = p

Exists(f, p) == p \in DOMAIN f

\* the working directory ("" joined with a name) always exists
IsDirectory(f, p) == p = <<>> \/ (p \in DOMAIN f /\ f[p].type = "dir")

Put(f, p, e) == [q \in DOMAIN f \cup {p} |-> IF q = p THEN e ELSE f[q]]

Without(f, gone) == [q \in DOMAIN f \ gone |-> f[q]]

\* one result of an operating-system call or of a path operation
Result(f, err) == [fs |-> f, err |-> err]

\* os.Remove: unlinks a file, a symlink or an empty directory
osRemove(f, p) ==
  IF ~Exists(f, p) THEN Result(f, TRUE)
  ELSE IF \E q \in DOMAIN f : q # p /\ IsPrefix(p, q) THEN Result(f, TRUE)
  ELSE Result(Without(f, {p}), FALSE)

\* os.RemoveAll: removes path and everything below it; "" is a silent no-op
osRemoveAll(f, p) ==
  IF p = <<>> THEN Result(f, FALSE)
  ELSE Result(Without(f, {q \in DOMAIN f : IsPrefix(p, q)}), FALSE)

\* filepath.Join
Join(p, parts) == p \o parts

\* one level of symbolic-link resolution, as open(2), chmod(2), chown(2) do
Resolve(f, p) == IF Exists(f, p) /\ f[p].type = "symlink" THEN f[p].target ELSE p

\* os.WriteFile(path, content, perm): creates or truncates; perm only on creation
osWriteFile(f, path, content, perm) ==
  LET p == Resolve(f, path) IN
  IF p = <<>> \/ ~IsDirectory(f, Parent(p)) THEN Result(f, TRUE)
  ELSE IF Exists(f, p)
    THEN IF f[p].type = "file"
           THEN Result(Put(f, p, [f[p] EXCEPT !.content = content]), FALSE)
           ELSE Result(f, TRUE)
    ELSE Result(Put(f, p, FileEntry(perm, content)), FALSE)

\* os.MkdirAll(path, perm)
RECURSIVE osMkdirAll(_, _, _)
osMkdirAll(f, p, perm) ==
  IF IsDirectory(f, p) THEN Result(f, FALSE)
  ELSE IF Exists(f, p) THEN Result(f, TRUE)
  ELSE LET r == osMkdirAll(f, Parent(p), perm) IN
       IF r.err THEN r ELSE Result(Put(r.fs, p, DirEntry(perm)), FALSE)

\* os.Symlink(oldname, newname)
osSymlink(f, oldname, newname) ==
  IF Exists(f, newname) \/ newname = <<>> \/ ~IsDirectory(f, Parent(newname))
    THEN Result(f, TRUE)
    ELSE Result(Put(f, newname, SymlinkEntry(oldname)), FALSE)

\* os.Chmod(path, mode)
osChmod(f, path, mode) ==
  LET p == Resolve(f, path) IN
  IF ~Exists(f, p) THEN Result(f, TRUE)
  ELSE Result(Put(f, p, [f[p] EXCEPT !.mode = mode]), FALSE)

\* os.Chown(path, uid, gid): only a privileged process may give a file away
osChown(f, path, uid, gid, privileged) ==
  LET p == Resolve(f, path) IN
  IF ~Exists(f, p) \/ ~privileged THEN Result(f, TRUE)
  ELSE Result(Put(f, p, [f[p] EXCEPT !.uid = uid, !.gid = gid]), FALSE)

\* ------------------------------------------------------- path operations
\* A PathOp value: what the constructor functions of the DSL return.  A
\* symlink target is a path string, so a sequence of components.
PathOp(op, name, content, mode, target, ops, files, uid, gid) ==
  [op |-> op, name |-> name, content |-> content, mode |-> mode,
   target |-> target, ops |-> ops, files |-> files, uid |-> uid, gid |-> gid]

WithFile(name, content, ops) == PathOp("WithFile", name, content, 0, <<>>, ops, {}, 0, 0)
WithDir(name, ops) == PathOp("WithDir", name, "", 0, <<>>, ops, {}, 0, 0)
WithSymlink(name, target) == PathOp("WithSymlink", name, "", 0, target, <<>>, {}, 0, 0)
WithMode(mode) == PathOp("WithMode", "", "", mode, <<>>, <<>>, {}, 0, 0)
WithBytes(content) == PathOp("WithBytes", "", content, 0, <<>>, <<>>, {}, 0, 0)
WithFiles(files) == PathOp("WithFiles", "", "", 0, <<>>, <<>>, files, 0, 0)
AsUser(uid, gid) == PathOp("AsUser", "", "", 0, <<>>, <<>>, {}, uid, gid)

\* the files of a batch, in the order one iteration over the map visits them
RECURSIVE FilesInOrder(_)
FilesInOrder(files) ==
  IF files = {} THEN <<>>
  ELSE LET x == CHOOSE y \in files : TRUE IN <<x>> \o FilesInOrder(files \ {x})

\* createFile(fullpath, content) for each file of a batch, stopping at an error
RECURSIVE createFiles(_, _, _)
createFiles(f, path, files) ==
  IF files = <<>> THEN Result(f, FALSE)
  ELSE LET r == osWriteFile(f, Join(path, <<files[1][1]>>), files[1][2], defaultFileMode) IN
       IF r.err THEN r ELSE createFiles(r.fs, path, Tail(files))

\* applyPathOps(path, ops): each operation in the order given; the first error
\* ends the loop and is returned.  applyOp is one operation on a real path.
RECURSIVE applyPathOps(_, _, _)
RECURSIVE applyOp(_, _, _)
applyPathOps(f, path, ops) ==
  IF ops = <<>> THEN Result(f, FALSE)
  ELSE LET r == applyOp(f, path, ops[1]) IN
       IF r.err THEN r ELSE applyPathOps(r.fs, path, Tail(ops))

applyOp(f, path, op) ==
  CASE op.op = "WithFile" ->
         LET full == Join(path, <<op.name>>)
             r == osWriteFile(f, full, op.content, defaultFileMode) IN
         IF r.err THEN r ELSE applyPathOps(r.fs, full, op.ops)
    [] op.op = "WithDir" ->
         LET full == Join(path, <<op.name>>)
             r == osMkdirAll(f, full, subDirPerm) IN
         IF r.err THEN r ELSE applyPathOps(r.fs, full, op.ops)
    [] op.op = "WithSymlink" ->
         osSymlink(f, Join(path, op.target), Join(path, <<op.name>>))
    [] op.op = "WithMode" -> osChmod(f, path, op.mode)
    [] op.op = "WithBytes" -> osWriteFile(f, path, op.content, defaultFileMode)
    [] op.op = "WithFiles" -> createFiles(f, path, FilesInOrder(op.files))
    [] op.op = "AsUser" -> osChown(f, path, op.uid, op.gid, euid = 0)

\* ------------------------------------------- the operations a test passes
\* all sequences over S of length at most n
SeqsUpTo(S, n) == UNION {[1..k -> S] : k \in 0..n}

\* no two operations of one directory level name the same entry
DistinctNames(ops) ==
  \A i, j \in 1..Len(ops) :
    (i # j /\ ops[i].name # "") => ops[i].name # ops[j].name

\* what the tests of the package hand to the Dir constructors
DirOpAlphabet ==
  { WithFile("j", "content j", <<WithMode(jFileMode)>>),
    WithDir("s", <<AsUser(userUid, userGid), WithFile("k", "content k", <<>>)>>),
    AsUser(userUid, userGid) }

\* ... and to NewFile: WithFile cannot work below a regular file
FileOpAlphabet ==
  { WithBytes("content x"),
    WithFile("j", "content j", <<>>) }

DirOpSeqs == {ops \in SeqsUpTo(DirOpAlphabet, MaxOps) : DistinctNames(ops)}
FileOpSeqs == {ops \in SeqsUpTo(FileOpAlphabet, MaxOps) : DistinctNames(ops)}

\* ------------------------------------------------------ fixtures (file.go)
\* the File or Dir value a constructor returned, with what the test saw of it
Handle(kind, ctor, path, ops, err) ==
  [kind |-> kind, ctor |-> ctor, path |-> path, ops |-> ops, err |-> err,
   removes |-> 0]

\* (*File).Remove: _ = os.Remove(f.path)
FileRemove(f, path) == osRemove(f, path).fs

\* mutant: os.Remove in place of os.RemoveAll
DirRemoveNotRecursive(f, path) == osRemove(f, path).fs

\* (*Dir).Remove: _ = os.RemoveAll(d.path)
DirRemove(f, path) == osRemoveAll(f, path).fs

RemoveOf(f, h) ==
  IF h.kind = "File" THEN FileRemove(f, h.path) ELSE DirRemove(f, h.path)

\* (*Dir).Path, (*File).Path
Path(h) == h.path

\* mutant: the directory's own path is left out of the joined path
DirJoinWithoutBase(h, parts) == parts

\* (*Dir).Join
DirJoin(h, parts) == Join(Path(h), parts)

\* testing.T runs the registered functions last added first
RECURSIVE runCleanup(_, _)
runCleanup(f, cs) ==
  IF cs = <<>> THEN f
  ELSE runCleanup(RemoveOf(f, cs[Len(cs)]), SubSeq(cs, 1, Len(cs) - 1))

TempPath == Join(TempDir, <<TempNames[nextTemp + 1]>>)

CanConstruct ==
  /\ pc = "running"
  /\ Len(handles) < MaxHandles
  /\ nextTemp < Len(TempNames)

\* mutant: NewFile without t.Cleanup(file.Remove)
NewFileNoCleanup(ops, createOk, closeOk) ==
  /\ CanConstruct
  /\ IF ~createOk
       THEN /\ failed' = TRUE
            /\ pc' = "panicked"
            /\ fs' = runCleanup(fs, cleanups)
            /\ UNCHANGED <<handles, cleanups, nextTemp>>
       ELSE LET created == Put(fs, TempPath, FileEntry(tempFilePerm, ""))
                file == Handle("File", "NewFile", TempPath, ops, FALSE)
                r == applyPathOps(created, Path(file), ops)
            IN /\ failed' = (failed \/ ~closeOk \/ r.err)
               /\ fs' = r.fs
               /\ handles' = Append(handles, [file EXCEPT !.err = ~closeOk \/ r.err])
               /\ nextTemp' = nextTemp + 1
               /\ UNCHANGED <<pc, cleanups>>
  /\ UNCHANGED <<noCleanup, euid>>

\* NewFile(t, prefix, ops...)
NewFile(ops, createOk, closeOk) ==
  /\ CanConstruct
  /\ IF ~createOk
       THEN \* assert.Nil records the error and returns; tempfile is nil and
            \* tempfile.Name() panics; the test dies after running its cleanups
            /\ failed' = TRUE
            /\ pc' = "panicked"
            /\ fs' = runCleanup(fs, cleanups)
            /\ UNCHANGED <<handles, cleanups, nextTemp>>
       ELSE LET created == Put(fs, TempPath, FileEntry(tempFilePerm, ""))
                file == Handle("File", "NewFile", TempPath, ops, FALSE)
                r == applyPathOps(created, Path(file), ops)
            IN /\ cleanups' = Append(cleanups, file)
               /\ failed' = (failed \/ ~closeOk \/ r.err)
               /\ fs' = r.fs
               /\ handles' = Append(handles, [file EXCEPT !.err = ~closeOk \/ r.err])
               /\ nextTemp' = nextTemp + 1
               /\ UNCHANGED pc
  /\ UNCHANGED <<noCleanup, euid>>

\* mutant: the removal hook is registered after the operations, on success only
NewDirCleanupAfterOps(ops, createOk) ==
  /\ CanConstruct
  /\ LET path == IF createOk THEN TempPath ELSE <<>>
         created == IF createOk THEN Put(fs, path, DirEntry(tempDirPerm)) ELSE fs
         dir == Handle("Dir", "NewDir", path, ops, FALSE)
         r == applyPathOps(created, Path(dir), ops)
     IN /\ cleanups' = IF r.err THEN cleanups ELSE Append(cleanups, dir)
        /\ failed' = (failed \/ ~createOk \/ r.err)
        /\ fs' = r.fs
        /\ handles' = Append(handles, [dir EXCEPT !.err = ~createOk \/ r.err])
        /\ nextTemp' = IF createOk THEN nextTemp + 1 ELSE nextTemp
  /\ UNCHANGED <<pc, noCleanup, euid>>

\* mutant: the error applyPathOps returns is dropped instead of reported
NewDirSwallowsError(ops, createOk) ==
  /\ CanConstruct
  /\ LET path == IF createOk THEN TempPath ELSE <<>>
         created == IF createOk THEN Put(fs, path, DirEntry(tempDirPerm)) ELSE fs
         dir == Handle("Dir", "NewDir", path, ops, FALSE)
         r == applyPathOps(created, Path(dir), ops)
     IN /\ cleanups' = Append(cleanups, dir)
        /\ failed' = (failed \/ ~createOk)
        /\ fs' = r.fs
        /\ handles' = Append(handles, [dir EXCEPT !.err = ~createOk])
        /\ nextTemp' = IF createOk THEN nextTemp + 1 ELSE nextTemp
  /\ UNCHANGED <<pc, noCleanup, euid>>

\* NewDir(t, prefix, ops...)
NewDir(ops, createOk) ==
  /\ CanConstruct
  /\ LET path == IF createOk THEN TempPath ELSE <<>>
         created == IF createOk THEN Put(fs, path, DirEntry(tempDirPerm)) ELSE fs
         dir == Handle("Dir", "NewDir", path, ops, FALSE)
         r == applyPathOps(created, Path(dir), ops)
     IN /\ cleanups' = Append(cleanups, dir)
        /\ failed' = (failed \/ ~createOk \/ r.err)
        /\ fs' = r.fs
        /\ handles' = Append(handles, [dir EXCEPT !.err = ~createOk \/ r.err])
        /\ nextTemp' = IF createOk THEN nextTemp + 1 ELSE nextTemp
  /\ UNCHANGED <<pc, noCleanup, euid>>

\* mutant: DirFromPath registers the removal hook as NewDir does
DirFromPathRegisters(path, ops) ==
  /\ CanConstruct
  /\ IsDirectory(fs, path) /\ path # <<>>
  /\ LET dir == Handle("Dir", "DirFromPath", path, ops, FALSE)
         r == applyPathOps(fs, Path(dir), ops)
     IN /\ failed' = (failed \/ r.err)
        /\ fs' = r.fs
        /\ handles' = Append(handles, [dir EXCEPT !.err = r.err])
        /\ cleanups' = Append(cleanups, dir)
  /\ UNCHANGED <<pc, noCleanup, euid, nextTemp>>

\* DirFromPath(t, path, ops...)
DirFromPath(path, ops) ==
  /\ CanConstruct
  /\ IsDirectory(fs, path) /\ path # <<>>
  /\ LET dir == Handle("Dir", "DirFromPath", path, ops, FALSE)
         r == applyPathOps(fs, Path(dir), ops)
     IN /\ failed' = (failed \/ r.err)
        /\ fs' = r.fs
        /\ handles' = Append(handles, [dir EXCEPT !.err = r.err])
  /\ UNCHANGED <<cleanups, pc, noCleanup, euid, nextTemp>>

\* the test calls Remove() on a handle it holds
Remove(i) ==
  /\ pc = "running"
  /\ handles[i].removes < MaxRemoves
  /\ fs' = RemoveOf(fs, handles[i])
  /\ handles' = [handles EXCEPT ![i].removes = @ + 1]
  /\ UNCHANGED <<cleanups, failed, pc, noCleanup, euid, nextTemp>>

\* the test function returns: the scope's teardown runs the cleanups
ScopeEnd ==
  /\ pc = "running"
  /\ fs' = runCleanup(fs, cleanups)
  /\ pc' = "done"
  /\ UNCHANGED <<handles, cleanups, failed, noCleanup, euid, nextTemp>>

\* ------------------------------------------------------------- manifests
\* Resource: permission-and-type mode, owner
resource(mode, uid, gid) == [mode |-> mode, uid |-> uid, gid |-> gid]
newResource(mode) == resource(mode, 0, 0)

\* Entry: a file (content), a directory (items) or a symlink (target)
Node(type, res, content, target, items) ==
  [type |-> type, res |-> res, content |-> content, target |-> target,
   items |-> items]

NoItems == [n \in {} |-> 0]
file(res, content) == Node("file", res, content, <<>>, NoItems)
directory(res, items) == Node("dir", res, "", <<>>, items)
symlink(res, target) == Node("symlink", res, "", target, NoItems)
NoManifest == Node("none", newResource(FileMode("", 0)), "", <<>>, NoItems)

SetItem(node, name, child) ==
  [node EXCEPT !.items =
     [n \in DOMAIN node.items \cup {name} |-> IF n = name THEN child ELSE node.items[n]]]

\* the path operations applied to a Manifest node under construction
RECURSIVE applyManifestOps(_, _)
RECURSIVE applyManifestOp(_, _)
RECURSIVE addFiles(_, _)
applyManifestOps(node, ops) ==
  IF ops = <<>> THEN node
  ELSE applyManifestOps(applyManifestOp(node, ops[1]), Tail(ops))

addFiles(node, files) ==
  IF files = <<>> THEN node
  ELSE addFiles(SetItem(node, files[1][1],
                        file(newResource(FileMode("", defaultFileMode)), files[1][2])),
                Tail(files))

applyManifestOp(node, op) ==
  CASE op.op = "WithFile" ->
         SetItem(node, op.name,
                 applyManifestOps(file(newResource(FileMode("", defaultFileMode)), op.content), op.ops))
    [] op.op = "WithDir" ->
         SetItem(node, op.name,
                 applyManifestOps(directory(newResource(FileMode(ModeDir, subDirPerm)), NoItems),
                                  op.ops))
    [] op.op = "WithSymlink" ->
         SetItem(node, op.name, symlink(newResource(defaultSymlinkMode), op.target))
    [] op.op = "WithMode" ->
         [node EXCEPT !.res.mode =
            FileMode(IF node.type = "dir" THEN ModeDir ELSE "", op.mode)]
    [] op.op = "WithBytes" ->
         IF node.type = "file" THEN [node EXCEPT !.content = op.content] ELSE node
    [] op.op = "WithFiles" -> addFiles(node, FilesInOrder(op.files))
    [] op.op = "AsUser" -> [node EXCEPT !.res.uid = op.uid, !.res.gid = op.gid]

\* Expected(t, ops...): the Manifest the operations describe
Expected(ops) ==
  applyManifestOps(directory(newResource(defaultRootDirMode), NoItems), ops)

\* the names of the entries of a directory of the filesystem
ChildNames(f, path) ==
  {q[Len(q)] : q \in {r \in DOMAIN f : Len(r) = Len(path) + 1 /\ IsPrefix(path, r)}}

TypeBit(type) ==
  CASE type = "dir" -> ModeDir [] type = "symlink" -> ModeSymlink [] OTHER -> ""

newResourceFromInfo(e) == resource(FileMode(TypeBit(e.type), e.mode), e.uid, e.gid)

\* the Manifest Builder: one level at a time, depth first
RECURSIVE getTypedResource(_, _)
newDirectory(f, path) ==
  directory(newResourceFromInfo(f[path]),
            [n \in ChildNames(f, path) |-> getTypedResource(f, Join(path, <<n>>))])

getTypedResource(f, path) ==
  CASE f[path].type = "dir" -> newDirectory(f, path)
    [] f[path].type = "symlink" ->
         symlink(newResource(defaultSymlinkMode), f[path].target)
    [] OTHER -> file(newResourceFromInfo(f[path]), f[path].content)

ManifestFromDir(f, path) == newDirectory(f, path)

\* os.ReadDir returns the entries of a directory sorted by name
NameOrder == <<"f", "g", "j", "k", "m", "n", "s", "x">>
SortedChildren(f, path) == SelectSeq(NameOrder, LAMBDA n : n \in ChildNames(f, path))

\* the entries below path in the order the builder reaches them
RECURSIVE walk(_, _, _)
walk(f, path, names) ==
  IF names = <<>> THEN <<>>
  ELSE LET c == Join(path, <<names[1]>>) IN
       <<c>> \o (IF f[c].type = "dir" THEN walk(f, c, SortedChildren(f, c)) ELSE <<>>)
           \o walk(f, path, Tail(names))

WalkOrder(f, path) == walk(f, path, SortedChildren(f, path))

\* the Manifest Comparator
eqResource(x, y) == x.mode = y.mode /\ x.uid = y.uid /\ x.gid = y.gid

RECURSIVE eqEntry(_, _)
eqEntry(x, y) ==
  /\ x.type = y.type
  /\ eqResource(x.res, y.res)
  /\ CASE x.type = "dir" ->
            /\ DOMAIN x.items = DOMAIN y.items
            /\ \A n \in DOMAIN x.items : eqEntry(x.items[n], y.items[n])
       [] x.type = "symlink" -> x.target = y.target
       [] OTHER -> x.content = y.content

Equal(x, y) == eqEntry(x, y)

\* the paths of the file entries of a Manifest built at base
RECURSIVE ManifestFiles(_, _)
ManifestFiles(node, base) ==
  CASE node.type = "file" -> {base}
    [] node.type = "dir" ->
         UNION {ManifestFiles(node.items[n], Join(base, <<n>>)) : n \in DOMAIN node.items}
    [] OTHER -> {}

Init ==
  /\ fs = [p \in {TempDir, ExtDir} |-> DirEntry(allPerm)]
  /\ handles = <<>>
  /\ cleanups = <<>>
  /\ failed = FALSE
  /\ pc = "running"
  /\ noCleanup \in BOOLEAN
  /\ euid \in {0, 1000}
  /\ nextTemp = 0
  /\ step = "none"
  /\ actual = NoManifest
  /\ expected = NoManifest
  /\ equal = FALSE
  /\ streams = NoItems

Next ==
  \/ \E ops \in FileOpSeqs, createOk, closeOk \in BOOLEAN :
       NewFile(ops, createOk, closeOk) /\ UNCHANGED mvars
  \/ \E ops \in DirOpSeqs, createOk \in BOOLEAN :
       NewDir(ops, createOk) /\ UNCHANGED mvars
  \/ \E ops \in DirOpSeqs : DirFromPath(ExtDir, ops) /\ UNCHANGED mvars
  \/ \E i \in 1..Len(handles) : Remove(i) /\ UNCHANGED mvars
  \/ ScopeEnd /\ UNCHANGED mvars

Spec == Init /\ [][Next]_vars

\* ------------------------------------------------- the manifest tests
\* what the manifest tests hand to NewDir
ManifestOpAlphabet ==
  { WithFile("j", "content j", <<WithMode(jFileMode)>>),
    WithFile("x", "content x", <<>>),
    WithFile("x", "", <<WithBytes("content x")>>),
    WithFile("x", "content x", <<AsUser(userUid, userGid)>>),
    WithDir("s", <<>>),
    WithDir("s", <<WithFile("k", "content k", <<>>)>>),
    WithDir("s", <<WithFiles({<<"m", "content m">>, <<"n", "content n">>}),
                   WithMode(customDirPerm)>>),
    WithDir("s", <<WithFile("k", "content k", <<>>), WithSymlink("g", <<"k">>)>>),
    WithSymlink("f", <<"j">>),
    WithFiles({<<"m", "content m">>, <<"n", "content n">>}),
    WithMode(customDirPerm),
    AsUser(userUid, userGid) }

ManifestOpSeqs == {ops \in SeqsUpTo(ManifestOpAlphabet, MaxOps) : DistinctNames(ops)}

\* the operations with every symlink target in its absolute form below base,
\* as the tests write them: WithSymlink("link1", dir.Join("file1"))
RECURSIVE RewriteSymlinks(_, _)
RewriteSymlinks(ops, base) ==
  [i \in 1..Len(ops) |->
     CASE ops[i].op = "WithSymlink" -> WithSymlink(ops[i].name, Join(base, ops[i].target))
       [] ops[i].op = "WithDir" ->
            WithDir(ops[i].name, RewriteSymlinks(ops[i].ops, Join(base, <<ops[i].name>>)))
       [] OTHER -> ops[i]]

srcDir == handles[1]

\* srcDir := NewDir(t, t.Name(), ops...); defer srcDir.Remove()
TestNewDir(ops) ==
  /\ step = "start"
  /\ NewDir(ops, TRUE)
  /\ step' = "built"
  /\ UNCHANGED <<actual, expected, equal, streams>>

\* expected := Expected(t, ops with the symlink targets made absolute)
TestExpected ==
  /\ step = "built"
  /\ expected' = Expected(RewriteSymlinks(srcDir.ops, DirJoin(srcDir, <<>>)))
  /\ step' = "expected"
  /\ UNCHANGED <<fvars, actual, equal, streams>>

\* actual := ManifestFromDir(t, srcDir.Path()).  failAt = 0: the walk succeeds
\* and every file met has its content stream open.  failAt = k: the k-th entry
\* the walk reaches cannot be read; the build is abandoned, the failure is
\* fatal, and the test ends there (deferred Remove, then the cleanups).
TestManifestFromDir ==
  /\ step = "expected"
  /\ \E failAt \in 0..Len(WalkOrder(fs, Path(srcDir))) :
       LET order == WalkOrder(fs, Path(srcDir))
           met == IF failAt = 0 THEN Len(order) ELSE failAt - 1
           opened == {order[i] : i \in {k \in 1..met : fs[order[k]].type = "file"}}
       IN /\ streams' = [p \in opened |-> [opens |-> 1, closes |-> 0]]
          /\ IF failAt = 0
               THEN /\ actual' = ManifestFromDir(fs, Path(srcDir))
                    /\ step' = "actual"
                    /\ UNCHANGED fvars
               ELSE /\ failed' = TRUE
                    /\ step' = "aborted"
                    /\ pc' = "done"
                    /\ fs' = runCleanup(RemoveOf(fs, srcDir), cleanups)
                    /\ UNCHANGED <<handles, cleanups, noCleanup, euid, nextTemp, actual>>
  /\ UNCHANGED <<expected, equal>>

\* assert.Equal(t, actual, expected): a mismatch is recorded, the test goes on
TestCompare ==
  /\ step = "actual"
  /\ equal' = Equal(actual, expected)
  /\ failed' = (failed \/ ~Equal(actual, expected))
  /\ step' = "compared"
  /\ UNCHANGED <<fs, handles, cleanups, pc, noCleanup, euid, nextTemp,
                 actual, expected, streams>>

\* actual.root.items[...].(*file).content.Close(), for each file of actual
TestCloseContents ==
  /\ step = "compared"
  /\ streams' = [p \in DOMAIN streams |->
                   IF p \in ManifestFiles(actual, Path(srcDir))
                     THEN [streams[p] EXCEPT !.closes = @ + 1]
                     ELSE streams[p]]
  /\ step' = "closed"
  /\ UNCHANGED <<fvars, actual, expected, equal>>

\* the test function returns: deferred srcDir.Remove(), then the cleanups
TestReturn ==
  /\ step = "closed"
  /\ pc = "running"
  /\ fs' = runCleanup(RemoveOf(fs, srcDir), cleanups)
  /\ pc' = "done"
  /\ step' = "returned"
  /\ UNCHANGED <<handles, cleanups, failed, noCleanup, euid, nextTemp,
                 actual, expected, equal, streams>>

InitManifest ==
  /\ fs = [p \in {TempDir, ExtDir} |-> DirEntry(allPerm)]
  /\ handles = <<>>
  /\ cleanups = <<>>
  /\ failed = FALSE
  /\ pc = "running"
  /\ noCleanup \in BOOLEAN
  /\ euid \in {0, 1000}
  /\ nextTemp = 0
  /\ step = "start"
  /\ actual = NoManifest
  /\ expected = NoManifest
  /\ equal = FALSE
  /\ streams = NoItems

NextManifest ==
  \/ \E ops \in ManifestOpSeqs : TestNewDir(ops)
  \/ TestExpected
  \/ TestManifestFromDir
  \/ TestCompare
  \/ TestCloseContents
  \/ TestReturn

SpecManifest == InitManifest /\ [][NextManifest]_vars

\* ------------------------------------------------------------ properties
\* nothing is left at path or below it
Absent(f, path) == \A q \in DOMAIN f : ~IsPrefix(path, q)

Handles == {handles[i] : i \in 1..Len(handles)}

\* fixtures whose temporary file or directory was really created
Created == {h \in Handles : h.ctor \in {"NewFile", "NewDir"} /\ Path(h) # <<>>}

Has(ops, kind) == \E k \in 1..Len(ops) : ops[k].op = kind

\* a handle Remove() was called on, once or more often, has nothing at its path
C1_RemoveLeavesAbsent ==
  \A h \in Handles : (h.removes >= 1 /\ Path(h) # <<>>) => Absent(fs, Path(h))

\* a step that is a Remove() call leaves the test's verdict and position alone
C1_RemoveReportsNothing ==
  (Len(handles') = Len(handles)
     /\ \E i \in 1..Len(handles) : handles'[i].removes > handles[i].removes)
  => (failed' = failed /\ pc' = pc)

\* C1: once Remove() was called on a handle its path is absent, for a Dir
\* with everything below it, after the first call and after every later one;
\* and a Remove() call neither fails the test nor ends it.
C1_RemoveIdempotent == []C1_RemoveLeavesAbsent /\ [][C1_RemoveReportsNothing]_vars

\* C1 witness: a Dir with a subtree, removed twice by the running test
C1_Witness ==
  \E h \in Handles :
    h.kind = "Dir" /\ h.removes = 2 /\ ~h.err /\ Has(h.ops, "WithDir") /\ pc = "running"

\* C2: with cleanup not disabled, a fixture NewFile or NewDir created exists
\* from the constructor's return until the test removes it or the scope ends,
\* and is absent once the scope's teardown has run.
C2_FixtureLifetime ==
  ~noCleanup =>
    \A h \in Created :
      /\ (pc = "running" /\ h.removes = 0) => Exists(fs, Path(h))
      /\ pc # "running" => Absent(fs, Path(h))

\* C2 witness: a file fixture the test never removed, after the scope ended
C2_Witness ==
  /\ ~noCleanup
  /\ pc = "done"
  /\ \E h \in Created : h.ctor = "NewFile" /\ h.removes = 0 /\ ~h.err

\* C3: with TEST_NOCLEANUP set to true no removal hook is registered, so a
\* fixture the test did not remove itself still exists after the scope ended.
C3_NoCleanupKeepsFixture ==
  (noCleanup /\ pc = "done") =>
    \A h \in Created : h.removes = 0 => Exists(fs, Path(h))

\* C4: a constructor whose creation step or path operation failed hands no
\* handle to test code that goes on running.
C4_NoHandleAfterFailure ==
  pc = "running" => \A h \in Handles : ~h.err

\* what one path operation leaves on disk below path when it ran to its end
RECURSIVE Done(_, _, _)
Done(f, path, op) ==
  CASE op.op = "WithFile" ->
         LET full == Join(path, <<op.name>>) IN
         /\ Exists(f, full) /\ f[full].type = "file"
         /\ \A k \in 1..Len(op.ops) : Done(f, full, op.ops[k])
    [] op.op = "WithDir" ->
         LET full == Join(path, <<op.name>>) IN
         /\ Exists(f, full) /\ f[full].type = "dir"
         /\ \A k \in 1..Len(op.ops) : Done(f, full, op.ops[k])
    [] op.op = "WithSymlink" -> Exists(f, Join(path, <<op.name>>))
    [] op.op = "WithMode" -> Exists(f, path) /\ f[path].mode = op.mode
    [] op.op = "WithBytes" -> Exists(f, path) /\ f[path].content = op.content
    [] op.op = "WithFiles" -> \A x \in op.files : Exists(f, Join(path, <<x[1]>>))
    [] op.op = "AsUser" -> Exists(f, path) /\ f[path].uid = op.uid /\ f[path].gid = op.gid

\* ... and the least trace of it having run at all
Started(f, path, op) ==
  CASE op.op \in {"WithFile", "WithDir", "WithSymlink"} -> Exists(f, Join(path, <<op.name>>))
    [] op.op = "WithFiles" -> \E x \in op.files : Exists(f, Join(path, <<x[1]>>))
    [] OTHER -> Done(f, path, op)

\* fresh directories as NewDir returned them, not yet touched by the test
FreshDirs ==
  {h \in Created : h.ctor = "NewDir" /\ h.removes = 0 /\ pc = "running"}

\* at path and at every level nested below it: no operation after one that
\* did not run to its end has left any trace
RECURSIVE StoppedAtFirstFailure(_, _, _)
StoppedAtFirstFailure(f, path, ops) ==
  /\ \A i, j \in 1..Len(ops) :
       (i < j /\ ~Done(f, path, ops[i])) => ~Started(f, path, ops[j])
  /\ \A i \in 1..Len(ops) :
       (ops[i].op \in {"WithFile", "WithDir"} /\ Started(f, path, ops[i]))
         => StoppedAtFirstFailure(f, Join(path, <<ops[i].name>>), ops[i].ops)

\* C5: the operations run in the order given and stop at the first failure:
\* at every nesting level no operation after one that did not run to its end
\* has left any trace, what ran before stays, and an operation that did not
\* run to its end is reported to the test.
C5_OrderedAbort ==
  \A h \in FreshDirs :
    /\ StoppedAtFirstFailure(fs, Path(h), h.ops)
    /\ (\E i \in 1..Len(h.ops) : ~Done(fs, Path(h), h.ops[i])) => failed
    /\ ~failed => \A i \in 1..Len(h.ops) : Done(fs, Path(h), h.ops[i])

\* C5 witness: the first operation ran, the second failed inside its nested
\* level, and the operation after the failing one left nothing
C5_Witness ==
  \E h \in FreshDirs :
    /\ Len(h.ops) = 2
    /\ h.ops[1].op = "WithFile" /\ Done(fs, Path(h), h.ops[1])
    /\ h.ops[2].op = "WithDir" /\ Started(fs, Path(h), h.ops[2])
    /\ ~Done(fs, Path(h), h.ops[2])
    /\ ~Started(fs, Join(Path(h), <<"s">>), h.ops[2].ops[2])
    /\ failed

Wrapped == {h \in Handles : h.ctor = "DirFromPath"}

RemovedByTest(path) == \E g \in Handles : g.removes >= 1 /\ IsPrefix(Path(g), path)

\* C9: DirFromPath wraps the directory it is given: Path() is that path, no
\* removal hook is registered for it, the operations land inside it, it is
\* still there at any time, the end of the scope included, unless the test
\* called Remove(), and an explicit Remove() deletes it.
C9_DirFromPathWraps ==
  \A h \in Wrapped :
    /\ Path(h) = ExtDir
    /\ cleanups = SelectSeq(cleanups, LAMBDA c : c.ctor # "DirFromPath")
    /\ ~RemovedByTest(Path(h)) =>
         /\ Exists(fs, Path(h)) /\ fs[Path(h)].type = "dir"
         /\ ~h.err => \A k \in 1..Len(h.ops) : Done(fs, Path(h), h.ops[k])
    /\ h.removes >= 1 => Absent(fs, Path(h))

\* C9 witness: a wrapped directory with its new file, after the scope ended
C9_Witness ==
  /\ pc = "done"
  /\ \E h \in Wrapped :
       /\ h.removes = 0 /\ ~h.err /\ Has(h.ops, "WithFile")
       /\ Exists(fs, DirJoin(h, <<"j">>))

HasLinkF == "f" \in DOMAIN actual.items /\ actual.items["f"].type = "symlink"

\* C7: the symlink f -> "j" made below the root is read back with the target
\* root/j; the entry Expected builds from the relative spelling "j" is not
\* equal to it, the one built from the absolute spelling is.
C7_SymlinkTargetExact ==
  (step \in {"actual", "compared", "closed", "returned"} /\ HasLinkF) =>
    /\ actual.items["f"].target = DirJoin(srcDir, <<"j">>)
    /\ ~eqEntry(actual.items["f"], Expected(srcDir.ops).items["f"])
    /\ ~Equal(actual, Expected(srcDir.ops))
    /\ eqEntry(actual.items["f"], expected.items["f"])

\* C7 witness: the symlink f was read back and compared
C7_Witness == step = "compared" /\ HasLinkF /\ ~srcDir.err

\* C8: once the test has ended, every content stream the builder opened has
\* been closed exactly once; and no stream is ever closed twice.
C8_StreamsClosedOnce ==
  /\ \A p \in DOMAIN streams : streams[p].closes <= streams[p].opens
  /\ pc = "done" =>
       \A p \in DOMAIN streams : streams[p].opens = 1 /\ streams[p].closes = 1

====
